---- MODULE Spec2Model ----
(***************************************************************************)
(* dataset/dataset_creation.py: the alignment and chunking of one          *)
(* recording (norm_sg, extract_chunk, the segment loop of create_tensor,   *)
(* save_array) and the batch loop of convert_folder.                       *)
(*                                                                         *)
(* A 2-D array is a sequence of rows, each a sequence of values; every     *)
(* array of the program has at least one row, so shape (r, 0) is r empty   *)
(* rows.  Frame indices are 0-based as in the source; sequence positions   *)
(* are 1-based.                                                            *)
(***************************************************************************)
EXTENDS Integers, Sequences, FiniteSets, TLC

(***************************************************************************)
(* Bounds of the model.                                                    *)
(***************************************************************************)
\* most acoustic frames (T_acoustic) of one recording
MaxFrames == 6
\* most piano-roll frames (T_symbolic) of one recording
MaxRollFrames == 8
\* largest -chunk_len
MaxChunkLen == 4
\* mel bins of a spectrogram (n_mels, 40 in create_tensor)
NumBins == 2
\* rows of a piano roll (128 pitches in pretty_midi)
NumPitches == 2
\* how many times the script is run over the same folder
MaxRuns == 2
\* most cells of an array whose contents are enumerated exhaustively
MaxCells == 6
\* largest decibel level of an enumerated spectrogram (the least is -1)
MaxLevel == 1
\* bits of the integer part examined by the division below
IntWidth == 16
\* bits that one step of the long division and multiplication below handles
LimbBits == 13

Min(a, b) == IF a < b THEN a ELSE b

(***************************************************************************)
(* IEEE-754 binary64, as far as extract_chunk uses it: int / int,          *)
(* int * float and round(float).  A positive double is [m, e]: m its 53    *)
(* mantissa bits, most significant first (m[1] = 1), e the exponent of the *)
(* last bit, so the value is BitsToNat(m) * 2^e.  Zero is the empty        *)
(* mantissa.                                                               *)
(***************************************************************************)
MantBits == 53

BitsToNat(bits) ==
    LET v[i \in 0..Len(bits)] == IF i = 0 THEN 0 ELSE 2 * v[i - 1] + bits[i]
    IN v[Len(bits)]

\* the bits of n, most significant first, without leading zeros
RECURSIVE NatBits(_)
NatBits(n) == IF n = 0 THEN << >> ELSE Append(NatBits(n \div 2), n % 2)

\* the low w bits of q, most significant first
IntBits(q, w) == [i \in 1..w |-> (q \div (2 ^ (w - i))) % 2]

\* long division, LimbBits bits at a time: the first k bits of r / b
\* (0 <= r < b) after the binary point, and the remainder left after them
RECURSIVE DivBits(_, _, _)
DivBits(r, b, k) ==
    IF k = 0 THEN [bits |-> << >>, rem |-> r]
    ELSE LET w    == Min(k, LimbBits)
             t    == r * (2 ^ w)
             rest == DivBits(t % b, b, k - w)
         IN [bits |-> IntBits(t \div b, w) \o rest.bits, rem |-> rest.rem]

\* s * m, LimbBits bits at a time from the last bit m[i] upwards: the low
\* Len(m) bits of the product and the carry out of them
RECURSIVE MulBits(_, _, _, _, _)
MulBits(m, s, i, carry, acc) ==
    IF i = 0 THEN [low |-> acc, carry |-> carry]
    ELSE LET w == Min(i, LimbBits)
             t == s * BitsToNat(SubSeq(m, i - w + 1, i)) + carry
         IN MulBits(m, s, i - w, t \div (2 ^ w), IntBits(t % (2 ^ w), w) \o acc)

\* bits + 1 on the same width; the carry out of the top bit is returned apart
Increment(bits) ==
    LET n     == Len(bits)
        zeros == {i \in 1..n : bits[i] = 0}
        k     == CHOOSE i \in zeros : \A j \in zeros : j <= i
    IN IF zeros = {} THEN [sum |-> [i \in 1..n |-> 0], carry |-> 1]
       ELSE [sum |-> [i \in 1..n |-> IF i < k THEN bits[i] ELSE IF i = k THEN 1 ELSE 0],
             carry |-> 0]

\* Round a bit string (bits[1] = 1, exp the exponent of its last bit, sticky
\* TRUE iff something non-zero lies below the last bit) to MantBits bits:
\* to nearest, ties to even.
RoundToDouble(bits, exp, sticky) ==
    LET n == Len(bits) IN
    IF n < MantBits
    THEN [m |-> bits \o [i \in 1..(MantBits - n) |-> 0], e |-> exp - (MantBits - n)]
    ELSE LET kept  == SubSeq(bits, 1, MantBits)
             guard == IF n > MantBits THEN bits[MantBits + 1] ELSE 0
             rest  == sticky \/ \E i \in (MantBits + 2)..n : bits[i] = 1
             e0    == exp + (n - MantBits)
             up    == guard = 1 /\ (rest \/ kept[MantBits] = 1)
             inc   == Increment(kept)
         IN IF ~up THEN [m |-> kept, e |-> e0]
            ELSE IF inc.carry = 1
                 THEN [m |-> [i \in 1..MantBits |-> IF i = 1 THEN 1 ELSE 0], e |-> e0 + 1]
                 ELSE [m |-> inc.sum, e |-> e0]

Zero == [m |-> << >>, e |-> 0]

\* a / b for Python ints a >= 0, b > 0 (true division: the correctly rounded
\* double): the quotient's bits from its first 1 on, one more than the
\* mantissa holds, rounded
TrueDiv(a, b) ==
    IF a = 0 THEN Zero ELSE
    LET head == IntBits(a \div b, IntWidth) \o DivBits(a % b, b, IntWidth).bits
        p    == CHOOSE i \in 1..(2 * IntWidth) :
                    head[i] = 1 /\ \A k \in 1..(i - 1) : head[k] = 0
        last == p + MantBits
        frac == DivBits(a % b, b, last - IntWidth)
        all  == IntBits(a \div b, IntWidth) \o frac.bits
    IN RoundToDouble(SubSeq(all, p, last), IntWidth - last, frac.rem # 0)

\* s * x for a Python int s >= 0 and a double x: the correctly rounded product
MulInt(s, x) ==
    IF s = 0 \/ x = Zero THEN Zero ELSE
    LET prod == MulBits(x.m, s, Len(x.m), 0, << >>)
    IN RoundToDouble(NatBits(prod.carry) \o prod.low, x.e, FALSE)

\* int(x) of a double x >= 0: truncation
PyTrunc(x) ==
    IF x = Zero THEN 0 ELSE
    LET n == Len(x.m)
        f == 0 - x.e
    IN IF f <= 0 THEN BitsToNat(x.m) * (2 ^ x.e)
       ELSE IF f >= n THEN 0
       ELSE BitsToNat(SubSeq(x.m, 1, n - f))

\* round(x) of a double x >= 0: the nearest integer, ties to the even one
PyRound(x) ==
    IF x = Zero THEN 0 ELSE
    LET n == Len(x.m)
        f == 0 - x.e      \* number of fraction bits
    IN IF f <= 0 THEN BitsToNat(x.m) * (2 ^ x.e)
       ELSE IF f > n THEN 0
       ELSE LET ip   == BitsToNat(SubSeq(x.m, 1, n - f))
                half == x.m[n - f + 1]
                rest == \E i \in (n - f + 2)..n : x.m[i] = 1
            IN IF half = 0 THEN ip
               ELSE IF rest THEN ip + 1
               ELSE IF ip % 2 = 0 THEN ip ELSE ip + 1

(***************************************************************************)
(* numpy / torch array operations the program uses.                        *)
(***************************************************************************)
Rows(a) == Len(a)
Cols(a) == Len(a[1])

\* np.zeros(shape=(r, c))
np_zeros(r, c) == [i \in 1..r |-> [j \in 1..c |-> 0]]

\* a[:, lo:hi + 1]: a slice that takes one column too many
slice_cols_inclusive(a, lo, hi) ==
    LET n == Cols(a)
        l == Min(lo, n)
        h == Min(hi + 1, n)
    IN [i \in 1..Rows(a) |-> IF l < h THEN SubSeq(a[i], l + 1, h) ELSE << >>]

\* a[:, lo:hi] for 0 <= lo, 0 <= hi: both bounds are clamped to the length,
\* and the slice is empty when lo >= hi
slice_cols(a, lo, hi) ==
    LET n == Cols(a)
        l == Min(lo, n)
        h == Min(hi, n)
    IN [i \in 1..Rows(a) |-> IF l < h THEN SubSeq(a[i], l + 1, h) ELSE << >>]

\* np.concatenate([a, b], axis=0); the caller's arrays agree in their columns
concat_rows(a, b) == a \o b

\* np.concatenate([a, b], axis=1); the caller's arrays agree in their rows
concat_cols(a, b) == [i \in 1..Rows(a) |-> a[i] \o b[i]]

\* every value of an array
Values(a) == {a[i][j] : i \in 1..Rows(a), j \in 1..Cols(a)}

ArrMin(a) == CHOOSE v \in Values(a) : \A w \in Values(a) : v <= w
ArrMax(a) == CHOOSE v \in Values(a) : \A w \in Values(a) : v >= w

(***************************************************************************)
(* State.                                                                  *)
(***************************************************************************)
VARIABLES
    disk,                \* stem -> [mel, roll]: what load_wav .. convert_to_DB and
                         \* get_piano_roll yield for the recording's two files
    audio_list,          \* convert_folder: the stems of the folder's .wav files
    idx,                 \* convert_folder: position of audio_path in audio_list
    chunk_len,           \* args.chunk_len
    pc,                  \* where the program is
    exc,                 \* the exception that ended the program, or "none"
    run,                 \* how many times the script has been started
    mel_spectrogram_db,  \* create_tensor's locals
    piano_roll,
    norm_db,
    song_len,
    m_sec,
    pr_chunk,
    sg_chunk,
    store,               \* the files under save_path: name -> array
    calls                \* the calls of extract_chunk made for the current
                         \* recording: arguments, mapped bounds, widths

vars == <<disk, audio_list, idx, chunk_len, pc, exc, run, mel_spectrogram_db,
          piano_roll, norm_db, song_len, m_sec, pr_chunk, sg_chunk, store, calls>>

(***************************************************************************)
(* The functions of dataset_creation.py.                                   *)
(***************************************************************************)
\* a quotient n / d of two levels; d = 0 is the non-finite result of the
\* unguarded division of a constant array
Quot(n, d) == [num |-> n, den |-> d]

\* (spectrogram - min) / max: the minimum subtracted, the range forgotten
norm_sg_by_max(spectrogram) ==
    LET lo == ArrMin(spectrogram)
        hi == ArrMax(spectrogram)
    IN [i \in 1..Rows(spectrogram) |->
          [j \in 1..Cols(spectrogram) |-> Quot(spectrogram[i][j] - lo, hi)]]

\* norm_sg: a new array, (spectrogram - min) / (max - min) element by element
norm_sg(spectrogram) ==
    LET lo == ArrMin(spectrogram)
        hi == ArrMax(spectrogram)
    IN [i \in 1..Rows(spectrogram) |->
          [j \in 1..Cols(spectrogram) |-> Quot(spectrogram[i][j] - lo, hi - lo)]]

\* .min() / .max() of an array without elements raise in torch and in numpy
norm_sg_raises(spectrogram) == Cols(spectrogram) = 0

\* a store that never overwrites: a second write goes to a fresh name
save_array_keep_old(st, arr, save_fp) ==
    LET fp == IF save_fp \in DOMAIN st
              THEN [save_fp EXCEPT !.kind = IF save_fp.kind = "spec" THEN "spec(1)"
                                            ELSE "piano(1)"]
              ELSE save_fp
    IN [n \in DOMAIN st \cup {fp} |-> IF n = fp THEN arr ELSE st[n]]

\* save_array: np.save(file=save_fp, arr=arr) creates or overwrites the file
save_array(st, arr, save_fp) ==
    [n \in DOMAIN st \cup {save_fp} |-> IF n = save_fp THEN arr ELSE st[n]]

\* a name whose stop is clipped to the length of the recording
artifact_name_clipped(start, len, stem, kind) ==
    [start |-> start, stop |-> Min(start + len, song_len), stem |-> stem, kind |-> kind]

\* f"{m_sec}-{m_sec+chunk_len}-{audio_path.stem}-{kind}.npy": the two numbers
\* are written in decimal and end at the first and the second dash, so the
\* string determines its four parts and is kept as them
artifact_name(start, len, stem, kind) ==
    [start |-> start, stop |-> start + len, stem |-> stem, kind |-> kind]

\* song_len / pr_frames: the ratio upside down
frame_ratio_inverted(pr_frames, n) == IF pr_frames = 0 THEN Zero ELSE TrueDiv(n, pr_frames)

\* pr_to_sg = pr_frames / song_len
frame_ratio(pr_frames, n) == TrueDiv(pr_frames, n)

\* int(frame * pr_to_sg): truncation where the source rounds
map_frame_trunc(frame, pr_to_sg) == PyTrunc(MulInt(frame, pr_to_sg))

\* round(frame * pr_to_sg)
map_frame(frame, pr_to_sg) == PyRound(MulInt(frame, pr_to_sg))

\* a marker column with its 1 in the first row
eos_token_first(rows) == [i \in 1..rows |-> << IF i = 1 THEN 1 ELSE 0 >>]

\* np.transpose(np.expand_dims(np.array([0, .., 0, 1]), 0)): a column of
\* `rows` values, 0 but for the last
eos_token(rows) == [i \in 1..rows |-> << IF i = rows THEN 1 ELSE 0 >>]

\* extract_chunk; song_len = 0 raises ZeroDivisionError at pr_frames / song_len
extract_chunk(pr, sg, start, stop, n) ==
    IF n = 0
    THEN [exc |-> "ZeroDivisionError", pr_chunk |-> << >>, sg_chunk |-> << >>,
          start_pr |-> 0, end_pr |-> 0]
    ELSE LET pr_frames == Cols(pr)
             pr_to_sg  == frame_ratio(pr_frames, n)
             start_pr  == map_frame(start, pr_to_sg)
             end_pr    == map_frame(stop, pr_to_sg)
             sliced    == slice_cols(pr, start_pr, end_pr)
             with_row  == concat_rows(sliced, np_zeros(1, Cols(sliced)))
             chunk     == concat_cols(with_row, eos_token(Rows(with_row)))
         IN [exc |-> "none", pr_chunk |-> chunk, sg_chunk |-> slice_cols(sg, start, stop),
             start_pr |-> start_pr, end_pr |-> end_pr]

\* a range that stops before a window that would not be full
range_has_full(m, stop) == m + chunk_len <= stop

\* range(0, song_len, chunk_len) yields m: m is below the stop
range_has(m, stop) == m < stop

\* what one call of extract_chunk is remembered by
CallRecord(start, stop, r) ==
    [stem |-> audio_list[idx], start |-> start, stop |-> stop,
     start_pr |-> r.start_pr, end_pr |-> r.end_pr,
     sg_cols |-> Cols(r.sg_chunk), pr_cols |-> Cols(r.pr_chunk)]

(***************************************************************************)
(* Inputs.                                                                 *)
(***************************************************************************)
\* a spectrogram in decibels of n frames: neighbouring frames differ
MelOf(n) == [i \in 1..NumBins |-> [j \in 1..n |-> ((3 * i + 2 * j) % 5) - 2]]

\* a piano roll of p frames: velocities 0..2, neighbouring frames differ
RollOf(p) == [i \in 1..NumPitches |-> [j \in 1..p |-> (i + 2 * j) % 3]]

Recordings == {[mel |-> MelOf(n), roll |-> RollOf(p)] :
                  n \in 0..MaxFrames, p \in 0..MaxRollFrames}

\* a folder of one recording, or of two that together stay within the bounds
Folders ==
    {[list |-> <<"a">>, disk |-> [s \in {"a"} |-> r]] : r \in Recordings}
    \cup
    {[list |-> <<"a", "b">>, disk |-> [s \in {"a", "b"} |-> IF s = "a" THEN ra ELSE rb]] :
        <<ra, rb>> \in {q \in Recordings \X Recordings :
                          /\ Cols(q[1].mel) + Cols(q[2].mel) <= MaxFrames
                          /\ Cols(q[1].roll) + Cols(q[2].roll) <= MaxRollFrames}}

Empty == << << >> >>

stem == audio_list[idx]

(***************************************************************************)
(* The script: main -> convert_folder -> create_tensor.                    *)
(***************************************************************************)
Init ==
    /\ \E f \in Folders : audio_list = f.list /\ disk = f.disk
    /\ chunk_len \in 1..MaxChunkLen
    /\ idx = 1
    /\ pc = "call"
    /\ exc = "none"
    /\ run = 1
    /\ mel_spectrogram_db = Empty
    /\ piano_roll = Empty
    /\ norm_db = Empty
    /\ song_len = 0
    /\ m_sec = 0
    /\ pr_chunk = Empty
    /\ sg_chunk = Empty
    /\ store = << >>
    /\ calls = << >>

\* create_tensor up to the loop: the two files are loaded and transformed,
\* the spectrogram is normalised
create_tensor_enter ==
    /\ pc = "call"
    /\ mel_spectrogram_db' = disk[stem].mel
    /\ piano_roll' = disk[stem].roll
    /\ calls' = << >>
    /\ IF norm_sg_raises(disk[stem].mel)
       THEN /\ pc' = "raised"
            /\ exc' = "RuntimeError"
            /\ UNCHANGED <<norm_db, song_len, m_sec>>
       ELSE /\ norm_db' = norm_sg(disk[stem].mel)
            /\ song_len' = Cols(disk[stem].mel)
            /\ m_sec' = 0
            /\ pc' = "loop"
            /\ exc' = "none"
    /\ UNCHANGED <<disk, audio_list, idx, chunk_len, run, pr_chunk, sg_chunk, store>>

\* one turn of the loop up to the first save: the range yields m_sec and
\* extract_chunk is called
loop_iterate ==
    /\ pc = "loop"
    /\ range_has(m_sec, song_len)
    /\ LET r == extract_chunk(piano_roll, norm_db, m_sec, m_sec + chunk_len, song_len)
       IN IF r.exc # "none"
          THEN /\ pc' = "raised"
               /\ exc' = r.exc
               /\ UNCHANGED <<pr_chunk, sg_chunk, calls>>
          ELSE /\ pr_chunk' = r.pr_chunk
               /\ sg_chunk' = r.sg_chunk
               /\ calls' = Append(calls, CallRecord(m_sec, m_sec + chunk_len, r))
               /\ pc' = "save_spec"
               /\ exc' = "none"
    /\ UNCHANGED <<disk, audio_list, idx, chunk_len, run, mel_spectrogram_db, piano_roll,
                   norm_db, song_len, m_sec, store>>

\* save_array of the spectrogram chunk; np.save either writes the file or
\* raises OSError, which nothing catches
save_spec ==
    /\ pc = "save_spec"
    /\ \E ok \in BOOLEAN :
          IF ok
          THEN /\ store' = save_array(store, sg_chunk,
                                      artifact_name(m_sec, chunk_len, stem, "spec"))
               /\ pc' = "save_piano"
               /\ exc' = "none"
          ELSE /\ pc' = "raised"
               /\ exc' = "OSError"
               /\ store' = store
    /\ UNCHANGED <<disk, audio_list, idx, chunk_len, run, mel_spectrogram_db, piano_roll,
                   norm_db, song_len, m_sec, pr_chunk, sg_chunk, calls>>

\* save_array of the piano-roll chunk, and the range's step
save_piano ==
    /\ pc = "save_piano"
    /\ \E ok \in BOOLEAN :
          IF ok
          THEN /\ store' = save_array(store, pr_chunk,
                                      artifact_name(m_sec, chunk_len, stem, "piano"))
               /\ pc' = "loop"
               /\ exc' = "none"
               /\ m_sec' = m_sec + chunk_len
          ELSE /\ pc' = "raised"
               /\ exc' = "OSError"
               /\ store' = store
               /\ m_sec' = m_sec
    /\ UNCHANGED <<disk, audio_list, idx, chunk_len, run, mel_spectrogram_db, piano_roll,
                   norm_db, song_len, pr_chunk, sg_chunk, calls>>

\* the range is exhausted: create_tensor returns and convert_folder goes on
\* to the next audio_path, or returns
loop_exit ==
    /\ pc = "loop"
    /\ ~range_has(m_sec, song_len)
    /\ IF idx < Len(audio_list)
       THEN idx' = idx + 1 /\ pc' = "call"
       ELSE idx' = idx /\ pc' = "done"
    /\ UNCHANGED <<disk, audio_list, chunk_len, exc, run, mel_spectrogram_db, piano_roll,
                   norm_db, song_len, m_sec, pr_chunk, sg_chunk, store, calls>>

\* the script is started again over the same folder and save path
rerun ==
    /\ pc = "done"
    /\ run < MaxRuns
    /\ run' = run + 1
    /\ idx' = 1
    /\ pc' = "call"
    /\ UNCHANGED <<disk, audio_list, chunk_len, exc, mel_spectrogram_db, piano_roll,
                   norm_db, song_len, m_sec, pr_chunk, sg_chunk, store, calls>>

Next ==
    \/ create_tensor_enter
    \/ loop_iterate
    \/ save_spec
    \/ save_piano
    \/ loop_exit
    \/ rerun

Spec == Init /\ [][Next]_vars

(***************************************************************************)
(* extract_chunk on its own: any piano roll of 0s and 1s within MaxCells   *)
(* and any window that starts inside the spectrogram; the window (10, 20)  *)
(* of 100 acoustic frames over 1000 piano-roll frames; and the window      *)
(* (7, 21) of 14 acoustic frames over 17 piano-roll frames, whose stop     *)
(* maps to 25.5 exactly and to a double just below it.                     *)
(***************************************************************************)
ArraysOver(maxRows, minCols, vals) ==
    UNION {[1..r -> [1..c -> vals]] :
              <<r, c>> \in {q \in (1..maxRows) \X (minCols..MaxCells) : q[1] * q[2] <= MaxCells}}

SmallCalls ==
    {[roll |-> pr, frames |-> n, start |-> s, len |-> l] :
        pr \in ArraysOver(NumPitches, 0, {0, 1}),
        <<n, s>> \in {q \in (0..MaxFrames) \X (0..MaxFrames) : q[2] < q[1] \/ q[2] = 0},
        l \in 1..MaxChunkLen}

ExampleCall == [roll |-> RollOf(1000), frames |-> 100, start |-> 10, len |-> 10]

TieCall == [roll |-> RollOf(17), frames |-> 14, start |-> 7, len |-> 14]

InitChunk ==
    /\ \E c \in SmallCalls \cup {ExampleCall, TieCall} :
          /\ piano_roll = c.roll
          /\ mel_spectrogram_db = MelOf(c.frames)
          /\ norm_db = IF c.frames = 0 THEN MelOf(0) ELSE norm_sg(MelOf(c.frames))
          /\ song_len = c.frames
          /\ m_sec = c.start
          /\ chunk_len = c.len
          /\ disk = [s \in {"a"} |-> [mel |-> MelOf(c.frames), roll |-> c.roll]]
    /\ audio_list = <<"a">>
    /\ idx = 1
    /\ pc = "extract"
    /\ exc = "none"
    /\ run = 1
    /\ pr_chunk = Empty
    /\ sg_chunk = Empty
    /\ store = << >>
    /\ calls = << >>

extract_only ==
    /\ pc = "extract"
    /\ LET r == extract_chunk(piano_roll, norm_db, m_sec, m_sec + chunk_len, song_len)
       IN IF r.exc # "none"
          THEN /\ pc' = "raised"
               /\ exc' = r.exc
               /\ UNCHANGED <<pr_chunk, sg_chunk, calls>>
          ELSE /\ pr_chunk' = r.pr_chunk
               /\ sg_chunk' = r.sg_chunk
               /\ calls' = Append(calls, CallRecord(m_sec, m_sec + chunk_len, r))
               /\ pc' = "extracted"
               /\ exc' = "none"
    /\ UNCHANGED <<disk, audio_list, idx, chunk_len, run, mel_spectrogram_db, piano_roll,
                   norm_db, song_len, m_sec, store>>

NextChunk == extract_only

SpecChunk == InitChunk /\ [][NextChunk]_vars

(***************************************************************************)
(* norm_sg on its own: any spectrogram of levels -1..MaxLevel within       *)
(* MaxCells.                                                               *)
(***************************************************************************)
Levels == (0 - 1)..MaxLevel

InitNorm ==
    /\ mel_spectrogram_db \in ArraysOver(NumBins, 1, Levels) \cup {MelOf(0)}
    /\ norm_db = Empty
    /\ pc = "normalize"
    /\ exc = "none"
    /\ disk = << >>
    /\ audio_list = <<"a">>
    /\ idx = 1
    /\ chunk_len = 1
    /\ run = 1
    /\ piano_roll = Empty
    /\ song_len = 0
    /\ m_sec = 0
    /\ pr_chunk = Empty
    /\ sg_chunk = Empty
    /\ store = << >>
    /\ calls = << >>

norm_only ==
    /\ pc = "normalize"
    /\ IF norm_sg_raises(mel_spectrogram_db)
       THEN /\ pc' = "raised"
            /\ exc' = "RuntimeError"
            /\ norm_db' = norm_db
            /\ mel_spectrogram_db' = mel_spectrogram_db
       ELSE /\ pc' = "normalized"
            /\ exc' = "none"
            /\ norm_db' = norm_sg(mel_spectrogram_db)
            /\ mel_spectrogram_db' = mel_spectrogram_db
    /\ UNCHANGED <<disk, audio_list, idx, chunk_len, run, piano_roll, song_len, m_sec,
                   pr_chunk, sg_chunk, store, calls>>

NextNorm == norm_only

SpecNorm == InitNorm /\ [][NextNorm]_vars

(***************************************************************************)
(* Properties.                                                             *)
(***************************************************************************)
CeilDiv(n, l) == (n + l - 1) \div l

Abs(d) == IF d < 0 THEN 0 - d ELSE d

\* the loop of the recording that `calls` describes has run to its end
LoopFinished == pc \in {"call", "done"}

\* r is an integer nearest to frame * P / N
HalfFrame(r, frame, P, N) == 2 * Abs(r * N - frame * P) <= N

NonConstant(a) == Cardinality(Values(a)) > 1

\* a quotient within [0, 1]
InUnit(q) == q.den > 0 /\ 0 <= q.num /\ q.num <= q.den

\* C1: the windows of a recording of song_len frames start at 0, chunk_len,
\* 2 * chunk_len, ..., each is cut from start to min(stop, song_len), and when
\* the loop ends there are ceil(song_len / chunk_len) of them and every frame
\* of [0, song_len) lies in exactly one.
C1_Coverage ==
    /\ \A i \in 1..Len(calls) :
          /\ calls[i].start = (i - 1) * chunk_len
          /\ calls[i].stop = calls[i].start + chunk_len
          /\ calls[i].start < song_len
          /\ calls[i].sg_cols = Min(calls[i].stop, song_len) - calls[i].start
    /\ LoopFinished =>
          /\ Len(calls) = CeilDiv(song_len, chunk_len)
          /\ \A t \in 0..(song_len - 1) :
                Cardinality({i \in 1..Len(calls) :
                                calls[i].start <= t /\ t < Min(calls[i].stop, song_len)}) = 1

\* the loop has ended after several windows, the last of them short
C1_Witness ==
    /\ pc = "done"
    /\ Len(calls) >= 2
    /\ song_len % chunk_len # 0

\* C2: the last column of a symbolic chunk is 0 in every row but the last,
\* where it is 1, and its last row is 0 in every other column.
C2_TerminalMarker ==
    pc = "extracted" =>
        LET r == Rows(pr_chunk)
            c == Cols(pr_chunk)
        IN /\ r = Rows(piano_roll) + 1
           /\ c >= 1
           /\ \A i \in 1..r : pr_chunk[i][c] = IF i = r THEN 1 ELSE 0
           /\ \A j \in 1..(c - 1) : pr_chunk[r][j] = 0

\* a chunk of the last, short window of a recording, with notes in it
C2_Witness ==
    /\ pc = "extracted"
    /\ m_sec + chunk_len > song_len
    /\ Cols(pr_chunk) >= 3
    /\ \E i \in 1..Rows(piano_roll) : \E j \in 1..(Cols(pr_chunk) - 1) : pr_chunk[i][j] # 0

\* C3 as stated: a recording shorter than chunk_len has the one window
\* (0, song_len), in the bounds passed to extract_chunk and in the names of
\* the two files.
C3_BoundaryClipped ==
    /\ (song_len >= 1 /\ song_len < chunk_len) =>
          \A i \in 1..Len(calls) : calls[i].start = 0 /\ calls[i].stop = song_len
    /\ \A n \in DOMAIN store :
          Cols(disk[n.stem].mel) < chunk_len =>
              n.start = 0 /\ n.stop = Cols(disk[n.stem].mel)

\* C3, amended: a recording shorter than chunk_len has one window, passed to
\* extract_chunk and named as (0, chunk_len); only the spectrogram slice is
\* cut to song_len columns.  When the loop ends, the last window of any
\* recording, short or not, has been cut and both its files are in the store
\* under its unclipped bounds.
C3_Boundary ==
    /\ \A n \in DOMAIN store :
          /\ n.stop = n.start + chunk_len
          /\ n.start < Cols(disk[n.stem].mel)
          /\ n.kind = "spec" =>
                Cols(store[n]) = Min(n.stop, Cols(disk[n.stem].mel)) - n.start
    /\ (song_len >= 1 /\ song_len < chunk_len) =>
          /\ Len(calls) <= 1
          /\ \A i \in 1..Len(calls) :
                /\ calls[i].start = 0
                /\ calls[i].stop = chunk_len
                /\ calls[i].sg_cols = song_len
          /\ LoopFinished => Len(calls) = 1
    /\ (song_len >= 1 /\ LoopFinished) =>
          LET c  == calls[Len(calls)]
              sp == [start |-> c.start, stop |-> c.start + chunk_len, stem |-> c.stem,
                     kind |-> "spec"]
              pn == [start |-> c.start, stop |-> c.start + chunk_len, stem |-> c.stem,
                     kind |-> "piano"]
          IN /\ c.start < song_len
             /\ c.start + chunk_len >= song_len
             /\ sp \in DOMAIN store
             /\ pn \in DOMAIN store
             /\ Cols(store[sp]) = song_len - c.start

\* a recording shorter than chunk_len has been processed to the end
C3_Witness ==
    /\ pc = "done"
    /\ song_len >= 2
    /\ song_len < chunk_len
    /\ Len(calls) = 1
    /\ [start |-> 0, stop |-> chunk_len, stem |-> calls[1].stem, kind |-> "spec"]
          \in DOMAIN store

\* C4: each bound of the mapped window is an integer nearest to
\* bound * pr_frames / song_len, and when pr_frames = k * song_len the mapped
\* window is (k * start, k * stop).
C4_AlignmentRatio ==
    pc = "extracted" =>
        LET c == calls[1]
            P == Cols(piano_roll)
        IN /\ HalfFrame(c.start_pr, c.start, P, song_len)
           /\ HalfFrame(c.end_pr, c.stop, P, song_len)
           /\ P % song_len = 0 =>
                 /\ c.start_pr = (P \div song_len) * c.start
                 /\ c.end_pr = (P \div song_len) * c.stop

\* 1000 piano-roll frames, 100 acoustic frames: window (10, 20) maps to (100, 200)
C4_Witness ==
    /\ pc = "extracted"
    /\ Cols(piano_roll) = 1000
    /\ song_len = 100
    /\ calls[1].start = 10
    /\ calls[1].stop = 20
    /\ calls[1].start_pr = 100
    /\ calls[1].end_pr = 200

\* C5 as stated: when the second recording of a folder has no acoustic
\* frames, what is reported for it is InvalidInputError and the program is
\* not ended by it.
C5_ZeroLengthIsolated ==
    (idx = 2 /\ Cols(disk[audio_list[idx]].mel) = 0 /\ exc # "none") =>
        (exc = "InvalidInputError" /\ pc # "raised")

\* C6 as stated: a failed write ends the program only if no window of the
\* recording and no recording of the folder was left to process.
C6_WriteFaultIsolated ==
    (pc = "raised" /\ exc = "OSError") =>
        (~(m_sec + chunk_len < song_len) /\ idx = Len(audio_list))

\* C7: once the script has run to its end, running it again over the same
\* folder changes nothing in the store: no name appears, no content changes.
C7_Idempotent == [][run >= 2 => store' = store]_vars

\* the second run has ended, over a store of several files
C7_Witness ==
    /\ run = 2
    /\ pc = "done"
    /\ Cardinality(DOMAIN store) >= 4

\* C8: norm_sg of a non-constant array returns an array of the same shape
\* with every value in [0, 1], 0 wherever the input has its minimum and 1
\* wherever it has its maximum, and leaves its argument as it was.
C8_NormalizationRange ==
    [][(pc = "normalize" /\ NonConstant(mel_spectrogram_db)) =>
          /\ pc' = "normalized"
          /\ mel_spectrogram_db' = mel_spectrogram_db
          /\ Rows(norm_db') = Rows(mel_spectrogram_db)
          /\ Cols(norm_db') = Cols(mel_spectrogram_db)
          /\ \A i \in 1..Rows(mel_spectrogram_db) : \A j \in 1..Cols(mel_spectrogram_db) :
                LET q == norm_db'[i][j]
                    x == mel_spectrogram_db[i][j]
                IN /\ InUnit(q)
                   /\ x = ArrMin(mel_spectrogram_db) => q.num = 0
                   /\ x = ArrMax(mel_spectrogram_db) => q.num = q.den]_vars

\* a normalised array with a negative minimum and a value strictly inside (0, 1)
C8_Witness ==
    /\ pc = "normalized"
    /\ NonConstant(mel_spectrogram_db)
    /\ ArrMin(mel_spectrogram_db) < 0
    /\ \E i \in 1..Rows(norm_db) : \E j \in 1..Cols(norm_db) :
          0 < norm_db[i][j].num /\ norm_db[i][j].num < norm_db[i][j].den

\* C9: a window that starts inside the spectrogram never makes extract_chunk
\* raise; the spectrogram slice has every row and the columns start ..
\* min(stop, song_len) - 1; the symbolic chunk has one row and one column
\* more than the piano-roll slice cut at pr_frames, and holds that slice.
C9_SliceShape ==
    /\ song_len >= 1 => pc # "raised"
    /\ pc = "extracted" =>
          LET c  == calls[1]
              P  == Cols(piano_roll)
              lo == Min(c.start_pr, P)
              hi == Min(c.end_pr, P)
              w  == IF lo < hi THEN hi - lo ELSE 0
          IN /\ c.start < song_len
             /\ Rows(sg_chunk) = Rows(norm_db)
             /\ Cols(sg_chunk) = Min(c.stop, song_len) - c.start
             /\ \A i \in 1..Rows(sg_chunk) : \A j \in 1..Cols(sg_chunk) :
                   sg_chunk[i][j] = norm_db[i][c.start + j]
             /\ Rows(pr_chunk) = Rows(piano_roll) + 1
             /\ Cols(pr_chunk) = w + 1
             /\ \A i \in 1..Rows(piano_roll) : \A j \in 1..w :
                   pr_chunk[i][j] = piano_roll[i][lo + j]

\* a window that runs past the end of both arrays and still holds two
\* piano-roll frames
C9_Witness ==
    /\ pc = "extracted"
    /\ calls[1].stop > song_len
    /\ calls[1].end_pr > Cols(piano_roll)
    /\ Cols(pr_chunk) >= 3
    /\ Cols(sg_chunk) >= 2

\* C10: the mapped windows of one recording follow one another: the first
\* starts at 0, each starts where the one before stops, every bound is
\* within half a frame of bound * pr_frames / song_len, and when the loop
\* ends the last stops at or after pr_frames, so every piano-roll frame lies
\* in exactly one chunk.
C10_SymbolicPartition ==
    LET P == Cols(piano_roll) IN
    /\ \A i \in 1..Len(calls) :
          LET c == calls[i] IN
          /\ i = 1 => c.start_pr = 0
          /\ i > 1 => c.start_pr = calls[i - 1].end_pr
          /\ c.start_pr <= c.end_pr
          /\ c.pr_cols = (Min(c.end_pr, P) - Min(c.start_pr, P)) + 1
          /\ HalfFrame(c.start_pr, c.start, P, song_len)
          /\ HalfFrame(c.end_pr, c.stop, P, song_len)
    /\ (LoopFinished /\ song_len >= 1) =>
          /\ calls[Len(calls)].end_pr >= P
          /\ \A j \in 0..(P - 1) :
                Cardinality({i \in 1..Len(calls) :
                                calls[i].start_pr <= j /\ j < calls[i].end_pr}) = 1

\* several windows whose inner bounds do not fall on whole piano-roll frames
C10_Witness ==
    /\ pc = "done"
    /\ Len(calls) >= 3
    /\ \E i \in 1..Len(calls) :
          (calls[i].stop * Cols(piano_roll)) % song_len # 0 /\ calls[i].stop < song_len

====
